---------------------------- MODULE Spec2Model ----------------------------
(***************************************************************************)
(* A model of coqui_server.py: the Flask application CoquiTTSServer with   *)
(* its three routes (/health, /api/tts, /api/voices), the two audio        *)
(* generators and the temp directory they write to.                        *)
(*                                                                         *)
(* Requests are served by concurrent handler threads (Flask's app.run      *)
(* serves each request in a thread of its own).  A handler's steps are cut *)
(* where it touches the temp directory, the only shared mutable state.     *)
(*                                                                         *)
(* Line 117 of coqui_server.py is dedented one level below the else: it    *)
(* belongs to; the model reads it as the body of that else (the comment    *)
(* above it, "Fallback to mock audio", sits in the else block).            *)
(*                                                                         *)
(* Strings are sequences of characters.  A float is the integer number of  *)
(* tenths (1.0 is 10).  Of a request that reaches a generator the model    *)
(* keeps the locals the code still reads, `text` and `speed`; `data` and   *)
(* `language` are not read after line 110.                                 *)
(***************************************************************************)
EXTENDS Integers, Sequences, FiniteSets, TLC

\* ------------------------------------------------------------------ bounds

\* Handler threads that may be in flight at once.
MaxReqs == 2
\* Longest `text` of a request, in characters.
MaxTextLen == 2
\* Size of the range of hash() in the model.
HashBuckets == 2

Reqs == 1..MaxReqs
Chars == {" ", "a"}
Buckets == 0..(HashBuckets - 1)

\* ------------------------------------------------------------ pure helpers

SeqsUpTo(S, n) == UNION {[1..k -> S] : k \in 0..n}

\* str.lstrip(): leading whitespace removed.
RECURSIVE LStrip(_)
LStrip(s) == IF s = <<>> THEN s
             ELSE IF Head(s) = " " THEN LStrip(Tail(s)) ELSE s

\* str.rstrip(): trailing whitespace removed.
RECURSIVE RStrip(_)
RStrip(s) == IF s = <<>> THEN s
             ELSE IF s[Len(s)] = " " THEN RStrip(SubSeq(s, 1, Len(s) - 1)) ELSE s

\* str.strip()
Strip(s) == RStrip(LStrip(s))

Texts == SeqsUpTo(Chars, MaxTextLen)
\* The texts a generator can be called with.
SpokenTexts == {Strip(t) : t \in Texts} \ {<<>>}

\* ---------------------------------------------------------------- requests

Absent == "<absent>"
\* 1.0, the default of data.get('speed', 1.0), in tenths.
DefaultSpeed == 10
DefaultLanguage == "en"

\* The JSON values a request gives for `speed`: no key, the number 2.0, the
\* string "2.0", a string that is no number.
SpeedInputs == {[kind |-> Absent, num |-> 0, str |-> ""],
                [kind |-> "number", num |-> 20, str |-> ""],
                [kind |-> "string", num |-> 0, str |-> "2.0"],
                [kind |-> "string", num |-> 0, str |-> "fast"]}

LanguageInputs == {Absent, "fr"}

NoText == [kind |-> Absent, val |-> <<>>]
NoSpeed == [kind |-> Absent, num |-> 0, str |-> ""]

\* The optional keys of a request: a language, a speed or neither.
Options == (LanguageInputs \X {NoSpeed}) \cup ({Absent} \X SpeedInputs)

\* What request.get_json() returns for a POST /api/tts: None, {} or a dict.
TtsBodies ==
    {[route |-> "/api/tts", json |-> "none", text |-> NoText,
      language |-> Absent, speed |-> NoSpeed]}
    \cup {[route |-> "/api/tts", json |-> "dict", text |-> NoText,
           language |-> l, speed |-> NoSpeed] : l \in LanguageInputs}
    \cup {[route |-> "/api/tts", json |-> "dict", text |-> [kind |-> "null", val |-> <<>>],
           language |-> Absent, speed |-> NoSpeed]}
    \cup {[route |-> "/api/tts", json |-> "dict", text |-> [kind |-> "string", val |-> t],
           language |-> o[1], speed |-> o[2]] :
              t \in Texts, o \in Options}

GetBody(route) == [route |-> route, json |-> "none", text |-> NoText,
                   language |-> Absent, speed |-> NoSpeed]

NoRequest == GetBody("")

\* `data` of a request that synthesize_speech has passed to a generator.
Passed == [GetBody("/api/tts") EXCEPT !.json = "passed"]

\* `not data`: None and the empty dict are falsy.
Falsy(d) == \/ d.json = "none"
            \/ d.json = "dict" /\ d.text.kind = Absent /\ d.language = Absent
                  /\ d.speed.kind = Absent

\* data['text'].strip(), for a text that is a string
TextOf(d) == Strip(d.text.val)

\* data.get('language', 'en')
LanguageOf(d) == IF d.language = Absent THEN DefaultLanguage ELSE d.language

\* float(x) of a string: the number it spells, or a ValueError.
ParseFloat(s) ==
    CASE s = "2.0" -> [ok |-> TRUE, val |-> 20, err |-> ""]
      [] s = "1.0" -> [ok |-> TRUE, val |-> 10, err |-> ""]
      [] OTHER -> [ok |-> FALSE, val |-> 0, err |-> "could not convert string to float"]

\* Mutant of SpeedOf: a speed that cannot be coerced falls back to the default.
SpeedOf_Lenient(d) ==
    CASE d.speed.kind = "number" -> [ok |-> TRUE, val |-> d.speed.num, err |-> ""]
      [] d.speed.kind = "string" /\ ParseFloat(d.speed.str).ok -> ParseFloat(d.speed.str)
      [] OTHER -> [ok |-> TRUE, val |-> DefaultSpeed, err |-> ""]

\* float(data.get('speed', 1.0))
SpeedOf(d) ==
    CASE d.speed.kind = Absent -> [ok |-> TRUE, val |-> DefaultSpeed, err |-> ""]
      [] d.speed.kind = "number" -> [ok |-> TRUE, val |-> d.speed.num, err |-> ""]
      [] d.speed.kind = "string" -> ParseFloat(d.speed.str)
      [] OTHER -> [ok |-> FALSE, val |-> 0,
                   err |-> "float() argument must be a string or a real number"]

\* ------------------------------------------------------------------- files

sample_rate == 22050
\* duration = 1.0 second
duration == 1
num_samples == sample_rate * duration

\* A file that is not a complete WAV file: just opened for writing (and so
\* truncated), part-written, or torn by two writers that wrote to it at once,
\* each through a handle of its own.
IncompleteFile == [kind |-> "incomplete", wav |-> <<>>, text |-> <<>>, speed |-> 0]

\* Mutant of SilentWav: two seconds of silence.
SilentWav_TwoSeconds ==
    [kind |-> "silence", wav |-> <<1, 2, sample_rate, 2 * num_samples>>,
     text |-> <<>>, speed |-> 0]

\* What generate_mock_audio writes: mono, 16-bit, sample_rate, num_samples
\* frames, every sample 0.  wav = <<nchannels, sampwidth, framerate, nframes>>.
SilentWav == [kind |-> "silence", wav |-> <<1, 2, sample_rate, num_samples>>,
              text |-> <<>>, speed |-> 0]

\* What tts_model.tts_to_file(text, file_path, speed) writes: the model's
\* speech for that text at that speed (its format is the model's own).
SpeechWav(text, speed) == [kind |-> "speech", wav |-> <<>>, text |-> text, speed |-> speed]

NoPath == [prefix |-> "", hash |-> -1]

\* --------------------------------------------------------------- responses

NoResp == [status |-> 0, kind |-> "none", error |-> "", model_loaded |-> FALSE,
           version |-> "", model |-> "", mimetype |-> "", path |-> NoPath,
           body |-> IncompleteFile]

\* jsonify({'error': msg}), code
ErrorResp(code, msg) == [NoResp EXCEPT !.status = code, !.kind = "error", !.error = msg]

\* Mutant of Handle500: the exception's message is replaced by a fixed one.
Handle500_Generic(msg) == ErrorResp(500, "Failed to generate speech")

\* The handler's except Exception: jsonify({'error': str(e)}), 500
Handle500(msg) == ErrorResp(500, msg)

\* send_file(audio_path, mimetype='audio/wav'): the file's bytes as read now.
SendFileResp(path, content) ==
    [NoResp EXCEPT !.status = 200, !.kind = "file", !.mimetype = "audio/wav",
                   !.path = path, !.body = content]

\* ------------------------------------------------------------------- state

VARIABLES
    startup,      \* what the environment gave at startup (never changes)
    tts_model,    \* self.tts_model: "none" or the name of the loaded model
    hashOf,       \* this process's hash() on the texts
    files,        \* the temp directory: file name -> content
    pc,           \* each handler thread's position
    data,         \* the request a thread handles
    text,         \* its local `text`
    speed,        \* its local `speed`
    audio_path,   \* the path of its generator (output_path, then audio_path)
    resp,         \* the response it returned
    called,       \* the generators it invoked
    tts_ok,       \* its tts_to_file call returned
    exc,          \* the message of the exception generate_mock_audio raised
    raced         \* another thread wrote to its file since it opened it

vars == <<startup, tts_model, hashOf, files, pc, data, text, speed, audio_path,
          resp, called, tts_ok, exc, raced>>

\* ----------------------------------------------------------------- startup

\* TTS_AVAILABLE and whether each TTS(model_name=...) call returns.  Only the
\* calls __init__ makes are recorded.
Startups ==
    {[tts_available |-> FALSE, primary_loads |-> FALSE, alternative_loads |-> FALSE],
     [tts_available |-> TRUE, primary_loads |-> TRUE, alternative_loads |-> FALSE],
     [tts_available |-> TRUE, primary_loads |-> FALSE, alternative_loads |-> TRUE],
     [tts_available |-> TRUE, primary_loads |-> FALSE, alternative_loads |-> FALSE]}

\* Mutant of LoadModel: the alternative model is not tried.
LoadModel_NoAlternative(s) ==
    IF s.tts_available /\ s.primary_loads THEN "fast_pitch" ELSE "none"

\* CoquiTTSServer.__init__: self.tts_model after construction.
LoadModel(s) ==
    IF ~s.tts_available THEN "none"
    ELSE IF s.primary_loads THEN "fast_pitch"
    ELSE IF s.alternative_loads THEN "tacotron2-DDC"
    ELSE "none"

\* hash() on str is fixed when the process starts (PYTHONHASHSEED) and is any
\* function after that; the buckets being interchangeable, the shortest text
\* hashes to bucket 0.
HashFunctions == {f \in [SpokenTexts -> Buckets] :
                     \A t \in SpokenTexts : Len(t) = 1 => f[t] = 0}

Init ==
    /\ startup \in Startups
    /\ tts_model = LoadModel(startup)
    /\ hashOf \in HashFunctions
    /\ files = <<>>
    /\ pc = [r \in Reqs |-> "idle"]
    /\ data = [r \in Reqs |-> NoRequest]
    /\ text = [r \in Reqs |-> <<>>]
    /\ speed = [r \in Reqs |-> 0]
    /\ audio_path = [r \in Reqs |-> NoPath]
    /\ resp = [r \in Reqs |-> NoResp]
    /\ called = [r \in Reqs |-> {}]
    /\ tts_ok = [r \in Reqs |-> FALSE]
    /\ exc = [r \in Reqs |-> ""]
    /\ raced = [r \in Reqs |-> FALSE]

\* ------------------------------------------------------------------ routes

\* health_check: GET /health
HealthResp ==
    [NoResp EXCEPT !.status = 200, !.kind = "health",
                   !.model_loaded = (tts_model # "none"),
                   !.version = IF tts_model # "none" THEN "1.0.0-real" ELSE "1.0.0-mock"]

\* list_voices: GET /api/voices
VoicesResp ==
    [NoResp EXCEPT !.status = 200, !.kind = "voices",
                   !.model = IF tts_model # "none" THEN "coqui-tts-real"
                             ELSE "mock-tts-server",
                   !.model_loaded = (tts_model # "none")]

\* Mutant of Rejection: the text is not trimmed before the emptiness check.
Rejection_NoStrip(d) ==
    IF Falsy(d) \/ d.text.kind = Absent
        THEN ErrorResp(400, "Missing text parameter")
    ELSE IF d.text.kind # "string"
        THEN Handle500("'NoneType' object has no attribute 'strip'")
    ELSE IF d.text.val = <<>>
        THEN ErrorResp(400, "Empty text")
    ELSE IF ~SpeedOf(d).ok
        THEN Handle500(SpeedOf(d).err)
    ELSE NoResp

\* synthesize_speech, lines 98-108: the response to a request that is not
\* passed to a generator, or NoResp when it is.
Rejection(d) ==
    IF Falsy(d) \/ d.text.kind = Absent
        THEN ErrorResp(400, "Missing text parameter")
    ELSE IF d.text.kind # "string"
        THEN Handle500("'NoneType' object has no attribute 'strip'")
    ELSE IF TextOf(d) = <<>>
        THEN ErrorResp(400, "Empty text")
    ELSE IF ~SpeedOf(d).ok
        THEN Handle500(SpeedOf(d).err)
    ELSE NoResp

\* `if self.tts_model:` the generator synthesize_speech calls
Generator == IF tts_model # "none" THEN "real" ELSE "mock"

\* Mutant of RealPath: the speed is part of the file name.
RealPath_WithSpeed(t, s) ==
    [prefix |-> "coqui_tts_", hash |-> (hashOf[t] + s \div 10) % HashBuckets]

\* os.path.join(self.temp_dir, f"coqui_tts_{hash(text)}.wav")
RealPath(t, s) == [prefix |-> "coqui_tts_", hash |-> hashOf[t]]

\* os.path.join(self.temp_dir, f"mock_tts_{hash(text)}.wav")
MockPath(t) == [prefix |-> "mock_tts_", hash |-> hashOf[t]]

\* The directory after `content` is written to `path`.
WriteFile(path, content) ==
    [n \in DOMAIN files \cup {path} |-> IF n = path THEN content ELSE files[n]]

\* Thread r writes to `path`: every other thread that has opened that file
\* and not read it back yet has been written over.
Disturb(r, path, mine) ==
    [q \in Reqs |->
        IF q = r THEN mine
        ELSE raced[q] \/ (pc[q] \in {"real_write", "mock_write", "send"}
                          /\ audio_path[q] = path)]

\* What the file holds when tts_to_file of thread r returns: the speech, or,
\* when another thread wrote to the file since r opened it, possibly a mix of
\* both writers' bytes (there is no lock and each writer has its own offset).
ClosedSpeech(r) ==
    IF raced[r] THEN {SpeechWav(text[r], speed[r]), IncompleteFile}
    ELSE {SpeechWav(text[r], speed[r])}

\* What the file holds when thread r leaves `with wave.open(...)`: the silent
\* WAV, every writer writing the same bytes; but a writer that opened the
\* file after r did and is still writing may have truncated what r wrote.
ClosedSilence(r) ==
    IF raced[r] /\ \E q \in Reqs \ {r} : pc[q] = "mock_write" /\ audio_path[q] = audio_path[r]
    THEN {SilentWav, IncompleteFile}
    ELSE {SilentWav}

\* A thread takes a request only when the threads before it are busy (the
\* threads are interchangeable).
Free(r) == pc[r] = "idle" /\ \A q \in Reqs : q < r => pc[q] # "idle"

HealthCheck(r) ==
    /\ Free(r)
    /\ data' = [data EXCEPT ![r] = GetBody("/health")]
    /\ resp' = [resp EXCEPT ![r] = HealthResp]
    /\ pc' = [pc EXCEPT ![r] = "done"]
    /\ UNCHANGED <<tts_ok, startup, tts_model, hashOf, files, text, speed, audio_path,
                   called, exc, raced>>

ListVoices(r) ==
    /\ Free(r)
    /\ data' = [data EXCEPT ![r] = GetBody("/api/voices")]
    /\ resp' = [resp EXCEPT ![r] = VoicesResp]
    /\ pc' = [pc EXCEPT ![r] = "done"]
    /\ UNCHANGED <<tts_ok, startup, tts_model, hashOf, files, text, speed, audio_path,
                   called, exc, raced>>

\* synthesize_speech, lines 98-117: get_json, the checks of `text`,
\* float(speed) and the call of a generator
SynthesizeSpeech(r, d) ==
    /\ Free(r)
    /\ IF Rejection(d) # NoResp
          THEN /\ data' = [data EXCEPT ![r] = d]
               /\ resp' = [resp EXCEPT ![r] = Rejection(d)]
               /\ pc' = [pc EXCEPT ![r] = "done"]
               /\ UNCHANGED <<text, speed, called>>
          ELSE /\ data' = [data EXCEPT ![r] = Passed]
               /\ text' = [text EXCEPT ![r] = TextOf(d)]
               /\ speed' = [speed EXCEPT ![r] = SpeedOf(d).val]
               /\ called' = [called EXCEPT ![r] = {Generator}]
               /\ pc' = [pc EXCEPT ![r] = IF Generator = "real" THEN "real_open"
                                          ELSE "mock_open"]
               /\ UNCHANGED resp
    /\ UNCHANGED <<tts_ok, startup, tts_model, hashOf, files, audio_path, exc, raced>>

\* generate_real_audio: the path, and tts_to_file up to opening the file
RealOpen(r) ==
    /\ pc[r] = "real_open"
    /\ LET path == RealPath(text[r], speed[r]) IN
       /\ audio_path' = [audio_path EXCEPT ![r] = path]
       /\ \/ \* tts_to_file raises before it writes: fall back to mock audio
             /\ pc' = [pc EXCEPT ![r] = "mock_open"]
             /\ called' = [called EXCEPT ![r] = @ \cup {"mock"}]
             /\ UNCHANGED <<files, raced>>
          \/ \* tts_to_file opens the file for writing
             /\ files' = WriteFile(path, IncompleteFile)
             /\ raced' = Disturb(r, path, FALSE)
             /\ pc' = [pc EXCEPT ![r] = "real_write"]
             /\ UNCHANGED called
    /\ UNCHANGED <<tts_ok, startup, tts_model, hashOf, data, text, speed, resp, exc>>

\* Mutant of RealWrite: generate_mock_audio is called after the model call
\* whether it failed or not (line 117 read at the indentation it has).
RealWrite_ThenMock(r) ==
    /\ pc[r] = "real_write"
    /\ \/ \E c \in ClosedSpeech(r) :
             /\ files' = WriteFile(audio_path[r], c)
             /\ raced' = Disturb(r, audio_path[r], raced[r])
             /\ tts_ok' = [tts_ok EXCEPT ![r] = TRUE]
       \/ UNCHANGED <<files, raced, tts_ok>>
    /\ pc' = [pc EXCEPT ![r] = "mock_open"]
    /\ called' = [called EXCEPT ![r] = @ \cup {"mock"}]
    /\ UNCHANGED <<startup, tts_model, hashOf, data, text, speed, audio_path, resp, exc>>

\* generate_real_audio: tts_to_file writes the speech and returns, or raises
RealWrite(r) ==
    /\ pc[r] = "real_write"
    /\ \/ \E c \in ClosedSpeech(r) :
             /\ files' = WriteFile(audio_path[r], c)
             /\ raced' = Disturb(r, audio_path[r], raced[r])
             /\ tts_ok' = [tts_ok EXCEPT ![r] = TRUE]
             /\ pc' = [pc EXCEPT ![r] = "send"]
             /\ UNCHANGED called
       \/ \* tts_to_file raises after it opened the file: fall back
          /\ pc' = [pc EXCEPT ![r] = "mock_open"]
          /\ called' = [called EXCEPT ![r] = @ \cup {"mock"}]
          /\ UNCHANGED <<files, raced, tts_ok>>
    /\ UNCHANGED <<startup, tts_model, hashOf, data, text, speed, audio_path, resp, exc>>

\* generate_mock_audio: the path and wave.open(output_path, 'w')
MockOpen(r) ==
    /\ pc[r] = "mock_open"
    /\ LET path == MockPath(text[r]) IN
       /\ audio_path' = [audio_path EXCEPT ![r] = path]
       /\ \/ \* the file cannot be created: the exception is raised again
             /\ exc' = [exc EXCEPT ![r] = "Permission denied"]
             /\ resp' = [resp EXCEPT ![r] = Handle500("Permission denied")]
             /\ pc' = [pc EXCEPT ![r] = "done"]
             /\ UNCHANGED <<files, raced>>
          \/ /\ files' = WriteFile(path, IncompleteFile)
             /\ raced' = Disturb(r, path, FALSE)
             /\ pc' = [pc EXCEPT ![r] = "mock_write"]
             /\ UNCHANGED <<exc, resp>>
    /\ UNCHANGED <<tts_ok, startup, tts_model, hashOf, data, text, speed, called>>

\* Mutant of MockWrite: a failed write is swallowed and the path returned.
MockWrite_SwallowsError(r) ==
    /\ pc[r] = "mock_write"
    /\ \/ \E c \in ClosedSilence(r) :
             /\ files' = WriteFile(audio_path[r], c)
             /\ raced' = Disturb(r, audio_path[r], raced[r])
       \/ UNCHANGED <<files, raced>>
    /\ pc' = [pc EXCEPT ![r] = "send"]
    /\ UNCHANGED <<tts_ok, startup, tts_model, hashOf, data, text, speed, audio_path,
                   called, exc, resp>>

\* generate_mock_audio: the frames are written and the file is closed
MockWrite(r) ==
    /\ pc[r] = "mock_write"
    /\ \/ \E c \in ClosedSilence(r) :
             /\ files' = WriteFile(audio_path[r], c)
             /\ raced' = Disturb(r, audio_path[r], raced[r])
             /\ pc' = [pc EXCEPT ![r] = "send"]
             /\ UNCHANGED <<exc, resp>>
       \/ \* a write fails: the exception is raised again
          /\ exc' = [exc EXCEPT ![r] = "No space left on device"]
          /\ resp' = [resp EXCEPT ![r] = Handle500("No space left on device")]
          /\ pc' = [pc EXCEPT ![r] = "done"]
          /\ UNCHANGED <<files, raced>>
    /\ UNCHANGED <<tts_ok, startup, tts_model, hashOf, data, text, speed, audio_path, called>>

\* Mutant of SendFile: the read-back waits while another thread has the
\* file open for writing.
SendFile_Locked(r) ==
    /\ pc[r] = "send"
    /\ \A q \in Reqs \ {r} :
          ~(pc[q] \in {"real_write", "mock_write"} /\ audio_path[q] = audio_path[r])
    /\ resp' = [resp EXCEPT ![r] =
                  IF audio_path[r] = NoPath \/ audio_path[r] \notin DOMAIN files
                  THEN ErrorResp(500, "Failed to generate speech")
                  ELSE SendFileResp(audio_path[r], files[audio_path[r]])]
    /\ pc' = [pc EXCEPT ![r] = "done"]
    /\ UNCHANGED <<tts_ok, startup, tts_model, hashOf, files, data, text, speed,
                   audio_path, called, exc, raced>>

\* synthesize_speech, lines 119-127: the existence check and send_file
SendFile(r) ==
    /\ pc[r] = "send"
    /\ resp' = [resp EXCEPT ![r] =
                  IF audio_path[r] = NoPath \/ audio_path[r] \notin DOMAIN files
                  THEN ErrorResp(500, "Failed to generate speech")
                  ELSE SendFileResp(audio_path[r], files[audio_path[r]])]
    /\ pc' = [pc EXCEPT ![r] = "done"]
    /\ UNCHANGED <<tts_ok, startup, tts_model, hashOf, files, data, text, speed, audio_path,
                   called, exc, raced>>

\* Mutant of Complete: the file that was sent is removed afterwards.
Complete_Cleanup(r) ==
    /\ pc[r] = "done"
    /\ files' = [n \in DOMAIN files \ {audio_path[r]} |-> files[n]]
    /\ pc' = [pc EXCEPT ![r] = "idle"]
    /\ data' = [data EXCEPT ![r] = NoRequest]
    /\ text' = [text EXCEPT ![r] = <<>>]
    /\ speed' = [speed EXCEPT ![r] = 0]
    /\ audio_path' = [audio_path EXCEPT ![r] = NoPath]
    /\ resp' = [resp EXCEPT ![r] = NoResp]
    /\ called' = [called EXCEPT ![r] = {}]
    /\ tts_ok' = [tts_ok EXCEPT ![r] = FALSE]
    /\ exc' = [exc EXCEPT ![r] = ""]
    /\ raced' = [raced EXCEPT ![r] = FALSE]
    /\ UNCHANGED <<startup, tts_model, hashOf>>

\* The response is delivered and the thread is free for the next request.
Complete(r) ==
    /\ pc[r] = "done"
    /\ pc' = [pc EXCEPT ![r] = "idle"]
    /\ data' = [data EXCEPT ![r] = NoRequest]
    /\ text' = [text EXCEPT ![r] = <<>>]
    /\ speed' = [speed EXCEPT ![r] = 0]
    /\ audio_path' = [audio_path EXCEPT ![r] = NoPath]
    /\ resp' = [resp EXCEPT ![r] = NoResp]
    /\ called' = [called EXCEPT ![r] = {}]
    /\ tts_ok' = [tts_ok EXCEPT ![r] = FALSE]
    /\ exc' = [exc EXCEPT ![r] = ""]
    /\ raced' = [raced EXCEPT ![r] = FALSE]
    /\ UNCHANGED <<startup, tts_model, hashOf, files>>

Next ==
    \E r \in Reqs :
        \/ HealthCheck(r)
        \/ ListVoices(r)
        \/ \E d \in TtsBodies : SynthesizeSpeech(r, d)
        \/ RealOpen(r)
        \/ RealWrite(r)
        \/ MockOpen(r)
        \/ MockWrite(r)
        \/ SendFile(r)
        \/ Complete(r)

Spec == Init /\ [][Next]_vars


\* ------------------------------------------------------------------ claims

\* Thread r handles a POST /api/tts.
Tts(r) == pc[r] # "idle" /\ data[r].route = "/api/tts"

\* The request's text is missing (no JSON data, no `text` key) or empty
\* (nothing left after trimming).
MissingOrEmptyText(d) ==
    \/ d.json = "none"
    \/ d.json = "dict" /\ d.text.kind = Absent
    \/ d.json = "dict" /\ d.text.kind = "string" /\ \A i \in 1..Len(d.text.val) : d.text.val[i] = " "

\* The request's text is a string with a character that is not whitespace.
ValidText(d) ==
    d.json = "dict" /\ d.text.kind = "string" /\ \E i \in 1..Len(d.text.val) : d.text.val[i] # " "

\* The request's speed is no number and spells none.
BadSpeed(d) == d.speed.kind = "string" /\ d.speed.str \notin {"1.0", "2.0"}

\* Thread r's request was passed to a generator.
Synthesizing(r) == Tts(r) /\ data[r] = Passed

\* The silent fallback: 1 second at 22050 Hz, mono, 16-bit, all samples zero.
IsSilentSecond(c) == c.kind = "silence" /\ c.wav = <<1, 2, 22050, 22050>>

\* The request bodies C1 is about.
RejectedTextBodies == {d \in TtsBodies : MissingOrEmptyText(d)}

C2_FallbackAlways200Silent ==
    \A r \in Reqs :
        Synthesizing(r) /\ tts_model # "none" /\ "mock" \in called[r] /\ pc[r] = "done" =>
            resp[r].status = 200 /\ IsSilentSecond(resp[r].body)

\* C2 amended: with a model loaded, a request whose model call failed falls
\* back to the silence generator and is never answered with the model's
\* error; if the silence generator writes its file the response is 200 with
\* the mock file of that text, which is the silent fallback unless another
\* request wrote to that file between this one's open and its read-back; if
\* the silence generator fails the response is 500 (C6).
C2_FallbackSilentUnlessRaced ==
    \A r \in Reqs :
        Synthesizing(r) /\ tts_model # "none" /\ "mock" \in called[r] /\ pc[r] = "done" =>
            IF exc[r] = ""
            THEN /\ resp[r].status = 200
                 /\ resp[r].kind = "file"
                 /\ resp[r].path = [prefix |-> "mock_tts_", hash |-> hashOf[text[r]]]
                 /\ ~raced[r] => IsSilentSecond(resp[r].body)
            ELSE resp[r].status = 500

\* C2's case: the model call failed and the silent fallback was returned.
C2_Witness ==
    \E r \in Reqs :
        /\ Synthesizing(r) /\ tts_model # "none" /\ called[r] = {"real", "mock"}
        /\ pc[r] = "done" /\ resp[r].status = 200 /\ IsSilentSecond(resp[r].body)

C4_MockAlways200Silent ==
    \A r \in Reqs :
        Tts(r) /\ tts_model = "none" /\ pc[r] = "done"
               /\ (data[r] = Passed \/ ValidText(data[r])) =>
            /\ resp[r].status = 200
            /\ resp[r].mimetype = "audio/wav"
            /\ IsSilentSecond(resp[r].body)

\* C4 amended: with no model loaded, a request with a valid text and a speed
\* that float() accepts ends 200 with an audio/wav body, the mock file of its
\* text, unless the silence generator fails (500, C6); the body is the silent
\* second, whatever the text, language and speed, unless another request
\* wrote to the same file between this one's open and its read-back.
C4_MockSilentUnlessRaced ==
    \A r \in Reqs :
        Synthesizing(r) /\ tts_model = "none" =>
            /\ called[r] = {"mock"}
            /\ pc[r] = "done" =>
                  IF exc[r] = ""
                  THEN /\ resp[r].status = 200
                       /\ resp[r].kind = "file"
                       /\ resp[r].mimetype = "audio/wav"
                       /\ resp[r].path = [prefix |-> "mock_tts_", hash |-> hashOf[text[r]]]
                       /\ ~raced[r] => IsSilentSecond(resp[r].body)
                  ELSE resp[r].status = 500

\* C4's case: with no model, requests with different texts and speeds were
\* both answered with the silent second.
C4_Witness ==
    \E r, q \in Reqs :
        /\ tts_model = "none" /\ pc[r] = "done" /\ pc[q] = "done"
        /\ text[r] # text[q] /\ speed[r] # speed[q] /\ text[r] # <<>> /\ text[q] # <<>>
        /\ resp[r].status = 200 /\ IsSilentSecond(resp[r].body)
        /\ resp[q].status = 200 /\ IsSilentSecond(resp[q].body)

\* What startup promised: the library imported and one of the two models
\* loaded.
LoadedAtStartup ==
    startup.tts_available /\ (startup.primary_loads \/ startup.alternative_loads)

\* C5: /health reports model_loaded exactly when the library was importable
\* and the primary or the alternative model loaded at startup, and the model
\* handle never changes afterwards.
C5_HealthReportsStartup ==
    /\ [](\A r \in Reqs :
            pc[r] = "done" /\ data[r].route = "/health" =>
                resp[r].status = 200 /\ resp[r].model_loaded = LoadedAtStartup)
    /\ [][tts_model' = tts_model /\ startup' = startup]_vars

\* C5's case: the alternative model loaded, a synthesis fell back to silence,
\* and /health still reports the model.
C5_Witness ==
    \E r, q \in Reqs :
        /\ startup.alternative_loads
        /\ pc[q] = "done" /\ called[q] = {"real", "mock"} /\ resp[q].status = 200
        /\ pc[r] = "done" /\ data[r].route = "/health" /\ resp[r].model_loaded

\* C6: when the silence generator fails, as the only generator or as the
\* fallback of a failed model call, the request ends 500 with the raw
\* message of that failure and no 200.
C6_SilenceFailureIs500 ==
    \A r \in Reqs :
        exc[r] # "" =>
            /\ pc[r] = "done"
            /\ "mock" \in called[r]
            /\ resp[r].status = 500
            /\ resp[r].kind = "error"
            /\ resp[r].error = exc[r]

\* C6's case: the silence generator failed both as the fallback of a failed
\* model call and on its own.
C6_Witness ==
    \E r \in Reqs :
        /\ tts_model # "none" /\ called[r] = {"real", "mock"}
        /\ exc[r] = "No space left on device" /\ resp[r].status = 500

\* The output of the generator that wrote thread r's file.
Output(r) == IF audio_path[r].prefix = "coqui_tts_" THEN SpeechWav(text[r], speed[r])
             ELSE SilentWav

\* C7: two requests with the same text taking the same generator have the
\* same file name, whatever their speeds, and a request that has written its
\* file has replaced what an earlier request left there.
C7_SameTextSameFile ==
    /\ \A r, q \in Reqs :
          /\ Synthesizing(r) /\ Synthesizing(q)
          /\ audio_path[r] # NoPath /\ audio_path[q] # NoPath
          /\ audio_path[r].prefix = audio_path[q].prefix
          /\ text[r] = text[q]
          => audio_path[r] = audio_path[q]
    /\ \A r \in Reqs :
          pc[r] = "send" /\ ~raced[r] =>
              audio_path[r] \in DOMAIN files /\ files[audio_path[r]] = Output(r)

\* C7's case: a request at speed 1.0 was answered with its speech; a later
\* request with the same text at speed 2.0 has written the same file over.
C7_Witness ==
    \E r, q \in Reqs :
        /\ text[r] = text[q] /\ speed[r] = 10 /\ speed[q] = 20
        /\ pc[r] = "done" /\ resp[r].status = 200 /\ resp[r].body = SpeechWav(text[r], 10)
        /\ pc[q] = "send" /\ audio_path[q] = resp[r].path
        /\ files[audio_path[q]] = SpeechWav(text[q], 20)

\* Thread r closes the file it was writing.
Closes(r) == pc[r] \in {"real_write", "mock_write"} /\ pc'[r] = "send"

\* No thread ever waits for another: whatever the others do, a thread that
\* is about to open, write or read back a file can do so.
NoLocking ==
    \A r \in Reqs :
        /\ pc[r] = "real_open" => ENABLED RealOpen(r)
        /\ pc[r] = "real_write" => ENABLED RealWrite(r)
        /\ pc[r] = "mock_open" => ENABLED MockOpen(r)
        /\ pc[r] = "mock_write" => ENABLED MockWrite(r)
        /\ pc[r] = "send" => ENABLED SendFile(r)

\* C8 as stated, its last part: the writer that closes the file last (no
\* other thread is still writing it) leaves its own content on disk.
C8_LastWriterWins ==
    [][\A r \in Reqs :
          /\ Closes(r)
          /\ \A q \in Reqs \ {r} :
                ~(pc[q] \in {"real_write", "mock_write"} /\ audio_path[q] = audio_path[r])
          => files'[audio_path[r]] = Output(r)]_vars

\* C8 amended: nothing locks a file between its write and its read-back (no
\* thread ever waits), so a request can be answered with a file another
\* request is writing or has written over; a writer leaves its own content
\* on disk when it closes the file, unless another request wrote to the file
\* while it was open, and then the file may be left incomplete.
C8_NoLockLastWriterUnlessOverlap ==
    /\ []NoLocking
    /\ [][\A r \in Reqs :
            Closes(r) =>
                /\ files'[audio_path[r]] \in {Output(r), IncompleteFile}
                /\ ~raced[r] => files'[audio_path[r]] = Output(r)]_vars

\* C8's case: a request is answered 200 with the file a second request with
\* the same text has just truncated and is still writing.
C8_Witness ==
    \E r, q \in Reqs :
        /\ r # q /\ text[r] = text[q]
        /\ pc[r] = "done" /\ resp[r].status = 200 /\ resp[r].body = IncompleteFile
        /\ pc[q] = "real_write" /\ audio_path[q] = resp[r].path

\* C8's other case: a request for speed 1.0 is answered 200 with the speech
\* a second request generated for speed 2.0, which is what stays on disk.
C8_WrongSpeedWitness ==
    \E r, q \in Reqs :
        /\ r # q /\ text[r] = text[q] /\ speed[r] = 10 /\ speed[q] = 20
        /\ pc[r] = "done" /\ resp[r].status = 200
        /\ resp[r].body = SpeechWav(text[r], 20)
        /\ files[resp[r].path] = SpeechWav(text[r], 20)

\* C9: no step removes a file from the temp directory, and /health and
\* /api/voices leave the directory as it is.
C9_FilesOnlyGrow ==
    [][/\ DOMAIN files \subseteq DOMAIN files'
       /\ \A r \in Reqs :
             pc[r] = "idle" /\ pc'[r] = "done"
                 /\ data'[r].route \in {"/health", "/api/voices"} => files' = files]_vars

\* C9's case: the directory holds a speech file and a mock file, a file has
\* been written over by a later request, and /health has been answered.
C9_Witness ==
    \E r, q \in Reqs :
        /\ Cardinality(DOMAIN files) >= 2
        /\ pc[r] = "done" /\ data[r].route = "/health"
        /\ pc[q] = "done" /\ resp[q].status = 200 /\ resp[q].kind = "file"
        /\ files[resp[q].path] # resp[q].body

\* The request bodies C10 is about.
BadSpeedBodies == {d \in TtsBodies : ValidText(d) /\ BadSpeed(d)}

\* C10: a request with a valid text and a speed float() rejects ends 500
\* with the conversion error in the step that receives it, with or without a
\* model; no generator is invoked and no file is written.
C10_BadSpeedIs500 ==
    /\ [][\A r \in Reqs :
            pc[r] = "idle" /\ pc'[r] # "idle" =>
                \A d \in BadSpeedBodies :
                    data'[r] \in {d, Passed} /\ SynthesizeSpeech(r, d) =>
                        /\ pc'[r] = "done"
                        /\ data'[r] = d
                        /\ resp'[r].status = 500
                        /\ called'[r] = {}
                        /\ files' = files]_vars
    /\ [](\A r \in Reqs :
            Tts(r) /\ ValidText(data[r]) /\ BadSpeed(data[r]) =>
                /\ pc[r] = "done"
                /\ resp[r].status = 500
                /\ resp[r].kind = "error"
                /\ resp[r].error = "could not convert string to float"
                /\ called[r] = {}
                /\ audio_path[r] = NoPath)

\* C10's case: with no model loaded, where speed is never used, a valid text
\* with the speed "fast" is answered 500.
C10_Witness ==
    \E r \in Reqs :
        /\ tts_model = "none" /\ Tts(r)
        /\ data[r].text.val = <<" ", "a">> /\ data[r].speed.str = "fast"
        /\ resp[r].status = 500

=============================================================================
